---------------------------- MODULE Spec2Model ----------------------------
(***************************************************************************)
(* State-machine model of virtinst/distroinstaller.py (DistroInstaller)    *)
(* and of debug-nodedev.py (debugnodedev).                                 *)
(*                                                                         *)
(* Python strings are sequences of one-character strings, so startswith    *)
(* is computed on the characters.  None is the empty sequence; the empty   *)
(* Python string is not among the modelled location values.  Collaborator  *)
(* objects (fetcher, store) are records carrying the URI they were built   *)
(* for; the record NoObject stands for None.                               *)
(*                                                                         *)
(* Every method call is one atomic action (the program is single-threaded *)
(* and synchronous).  What a call did is left in the observation           *)
(* variables op, arg, ret, exc, raised, calls and log, which describe the    *)
(* most recent call only.  The outcome of every collaborator call is an     *)
(* input of the action.  _cdrom_path, _tmpfiles, _tmpvols, extraargs,      *)
(* _install_kernel and _install_initrd are only written by the modelled    *)
(* methods and read by none of them; they are not part of the state.       *)
(***************************************************************************)
EXTENDS Naturals, Sequences

VARIABLES
    location,           \* Installer.location (a string, or None)
    cdrom,              \* Installer.cdrom
    livecd,             \* DistroInstaller.livecd
    _cached_fetcher,    \* DistroInstaller._cached_fetcher
    _cached_store,      \* DistroInstaller._cached_store
    remote,             \* self.conn.is_remote()
    fs,                 \* the local filesystem: path -> "absent" | "file" | "dir"
    op,                 \* the most recent call
    arg,                \* its argument (_validate_location: val, and the
                        \* caches it found)
    ret,                \* its return value
    exc,                \* the exception that reached its caller (NoExc: none)
    raised,             \* the first exception raised inside it (NoExc: none)
    calls,              \* the collaborator calls it made, in order
    log,                \* the log records it emitted
    hostdevs,           \* debugnodedev: the argument list
    idx,                \* debugnodedev: position of the for loop
    out,                \* debugnodedev: the printed lines
    ppc                 \* debugnodedev: "start" | "loop" | "done" | "aborted"

installer == <<location, cdrom, livecd, _cached_fetcher, _cached_store>>
environment == <<remote, fs>>
observation == <<op, arg, ret, exc, raised, calls, log>>
probe == <<hostdevs, idx, out, ppc>>
vars == <<installer, environment, observation, probe>>

---------------------------------------------------------------------------
(* Bounds *)

\* debugnodedev is called with at most this many hostdevice strings.
MaxHostdevs == 3

---------------------------------------------------------------------------
(* Strings *)

None == << >>

HTTP == <<"h", "t", "t", "p", ":", "/", "/">>
HTTPS == <<"h", "t", "t", "p", "s", ":", "/", "/">>
FTP == <<"f", "t", "p", ":", "/", "/">>
NFS == <<"n", "f", "s", ":">>

\* str.startswith
startswith(s, prefix) ==
    /\ Len(s) >= Len(prefix)
    /\ SubSeq(s, 1, Len(prefix)) = prefix

\* The location strings of the model: "http://a", "https://a", "ftp://a",
\* "nfs:a" and "/a".
Locations ==
    { HTTP \o <<"a">>, HTTPS \o <<"a">>, FTP \o <<"a">>, NFS \o <<"a">>,
      <<"/", "a">> }

FsKinds == {"absent", "file", "dir"}

\* The paths that may exist on the local filesystem: "/a", and "http://a"
\* (a relative path).  No other location string names an existing path.
Paths == { <<"/", "a">>, HTTP \o <<"a">> }

Filesystems == [Paths -> FsKinds]

\* os.path.exists, os.path.isdir
exists(path) == path \in Paths /\ fs[path] # "absent"
isdir(path) == path \in Paths /\ fs[path] = "dir"

---------------------------------------------------------------------------
(* Exceptions, collaborator objects *)

\* An exception: its type, the call that raised it, the format of its
\* message, the value the message embeds and the str() of the exception it
\* wraps.
NoExc ==
    [type |-> "none", step |-> "none", fmt |-> "", value |-> None, cause |-> ""]
Exc(type, step, fmt, value, cause) ==
    [type |-> type, step |-> step, fmt |-> fmt, value |-> value,
     cause |-> cause]

\* A fetcher or a store: the location it was built for, and (history)
\* whether _validate_location has been called since it was built.
NoObject == [kind |-> "None", uri |-> None, revalidated |-> FALSE]
Object(kind, uri) == [kind |-> kind, uri |-> uri, revalidated |-> FALSE]

\* The exception types a collaborator call may raise.
FailTypes == {"ValueError", "RuntimeError"}

\* The collaborator calls that may raise, in the order the methods make them.
Steps ==
    { "make_scratchdir", "fetcherForURI", "prepareLocation", "getDistroStore", "acquireBootISO",
      "acquireKernel", "perform_initrd_injections", "upload_kernel_initrd",
      "get_osdict_info", "lookup_os_by_media" }

\* An input of a method call: the first collaborator call that raises, if it
\* is reached (failAt), what it raises (failType), and whether
\* fetcher.cleanupLocation raises when it is called.  Only the type of what
\* prepareLocation raises is ever inspected (_prepare, except ValueError):
\* every other call raises one type.
Inputs ==
    { i \in [failAt : Steps \cup {"none"}, failType : FailTypes,
             cleanupOk : BOOLEAN] :
        i.failType = "ValueError" => i.failAt = "prepareLocation" }

\* What str(e) of a failed DeviceDisk validation may read.
Causes == {"Unknown storage type", "The path must be absolute"}

NFS_NOTICE == "NFS URL installs are no longer supported."

---------------------------------------------------------------------------
(* distroinstaller.py, module level *)

\* Mutant: on a local connection every path that does not exist is a URL.
_is_url_missing_path(url) ==
    IF ~remote
    THEN (IF exists(url) THEN isdir(url) ELSE TRUE)
    ELSE \/ startswith(url, HTTP)
         \/ startswith(url, HTTPS)
         \/ startswith(url, FTP)

\* _is_url(conn, url), for url a string
_is_url(url) ==
    IF ~remote /\ exists(url)
    THEN isdir(url)
    ELSE \/ startswith(url, HTTP)
         \/ startswith(url, HTTPS)
         \/ startswith(url, FTP)

MEDIA_LOCATION_DIR == 1
MEDIA_LOCATION_CDROM == 2
MEDIA_LOCATION_URL == 3
MEDIA_CDROM_PATH == 4
MEDIA_CDROM_URL == 5
MEDIA_CDROM_IMPLIED == 6

MediaTypes == 1..6

---------------------------------------------------------------------------
(* DistroInstaller: pure methods *)

\* Mutant: the cdrom flag is tested before the URL check.
_get_media_type_cdrom_first ==
    IF cdrom /\ location = None
    THEN MEDIA_CDROM_IMPLIED
    ELSE IF cdrom
    THEN MEDIA_CDROM_PATH
    ELSE IF location # None /\ _is_url(location)
    THEN MEDIA_LOCATION_URL
    ELSE IF location # None /\ isdir(location)
    THEN MEDIA_LOCATION_DIR
    ELSE MEDIA_LOCATION_CDROM

_get_media_type ==
    IF cdrom /\ location = None
    THEN MEDIA_CDROM_IMPLIED
    ELSE IF location # None /\ _is_url(location)
    THEN (IF cdrom THEN MEDIA_CDROM_URL ELSE MEDIA_LOCATION_URL)
    ELSE IF cdrom
    THEN MEDIA_CDROM_PATH
    ELSE IF location # None /\ isdir(location)
    THEN MEDIA_LOCATION_DIR
    ELSE MEDIA_LOCATION_CDROM

\* Mutant: persistent_cd does not test livecd.
_get_bootdev_no_livecd(isinstall) ==
    LET mediatype == _get_media_type
        local == mediatype \in {MEDIA_CDROM_PATH, MEDIA_CDROM_IMPLIED,
                                MEDIA_LOCATION_DIR, MEDIA_LOCATION_CDROM}
        persistent_cd == local /\ cdrom
    IN  IF isinstall \/ persistent_cd THEN "cdrom" ELSE "hd"

_get_bootdev(isinstall) ==
    LET mediatype == _get_media_type
        local == mediatype \in {MEDIA_CDROM_PATH, MEDIA_CDROM_IMPLIED,
                                MEDIA_LOCATION_DIR, MEDIA_LOCATION_CDROM}
        persistent_cd == local /\ cdrom /\ livecd
    IN  IF isinstall \/ persistent_cd THEN "cdrom" ELSE "hd"

has_install_phase == ~livecd

\* Mutant: MEDIA_CDROM_IMPLIED listed in place of MEDIA_CDROM_URL.
needs_cdrom_implied ==
    _get_media_type \in {MEDIA_CDROM_PATH, MEDIA_LOCATION_CDROM,
                         MEDIA_CDROM_IMPLIED}

needs_cdrom ==
    _get_media_type \in {MEDIA_CDROM_PATH, MEDIA_LOCATION_CDROM,
                         MEDIA_CDROM_URL}

\* Mutant: MEDIA_LOCATION_CDROM is not listed.
scratchdir_required_no_device ==
    _get_media_type \in {MEDIA_CDROM_URL, MEDIA_LOCATION_URL,
                         MEDIA_LOCATION_DIR}

scratchdir_required ==
    _get_media_type \in {MEDIA_CDROM_URL, MEDIA_LOCATION_URL,
                         MEDIA_LOCATION_DIR, MEDIA_LOCATION_CDROM}

---------------------------------------------------------------------------
(* DistroInstaller: methods that call collaborators.  A frame holds what a *)
(* method body has done so far; exc is the exception now propagating.      *)

Frame0 ==
    [ _cached_fetcher |-> _cached_fetcher, _cached_store |-> _cached_store,
      calls |-> << >>, exc |-> NoExc, raised |-> NoExc,
      log |-> << >>, val |-> None ]

Raise(f, e) ==
    [f EXCEPT !.exc = e, !.raised = IF @ = NoExc THEN e ELSE @]

Log(f, level, msg) ==
    [f EXCEPT !.log = Append(@, [level |-> level, msg |-> msg])]

\* One collaborator call: it raises if it is the input's failing call.
Call(f, step, inp) ==
    LET g == [f EXCEPT !.calls = Append(@, step)]
    IN  IF inp.failAt = step
        THEN Raise(g, Exc(inp.failType, step, "%s", None, step))
        ELSE g

_get_fetcher(f, inp) ==
    IF f._cached_fetcher # NoObject
    THEN f
    ELSE LET g == Call(f, "make_scratchdir", inp)
             h == Call(g, "fetcherForURI", inp)
         IN  IF g.exc # NoExc THEN g
             ELSE IF h.exc # NoExc THEN h
             ELSE [h EXCEPT !._cached_fetcher = Object("fetcher", location)]

_get_store(f, inp) ==
    IF f._cached_store # NoObject
    THEN f
    ELSE LET g == Call(f, "getDistroStore", inp)
         IN  IF g.exc # NoExc THEN g
             ELSE [g EXCEPT !._cached_store =
                                Object("store", f._cached_fetcher.uri)]

_prepare_cdrom_url(f, inp) ==
    LET g == _get_store(f, inp)
        h == Call(g, "acquireBootISO", inp)
    IN  IF g.exc # NoExc THEN g
        ELSE IF h.exc # NoExc THEN h
        ELSE h

_prepare_kernel_url(f, inp) ==
    LET g == _get_store(f, inp)
        h == Call(g, "acquireKernel", inp)
        i == Call(h, "perform_initrd_injections", inp)
        j == Call(i, "upload_kernel_initrd", inp)
    IN  IF g.exc # NoExc THEN g
        ELSE IF h.exc # NoExc THEN h
        ELSE IF i.exc # NoExc THEN i
        ELSE j

\* finally: fetcher.cleanupLocation(), with fetcher bound.  An exception
\* raised by the finally clause replaces the one propagating.
cleanupLocation(f, inp) ==
    LET g == [f EXCEPT !.calls = Append(@, "cleanupLocation")]
    IN  IF inp.cleanupOk
        THEN g
        ELSE Raise([g EXCEPT !.exc = NoExc],
                   Exc("RuntimeError", "cleanupLocation", "%s", None,
                       "cleanupLocation"))

\* finally: fetcher.cleanupLocation(), with the local name fetcher never
\* assigned: evaluating the name raises, and no cleanup is called.
cleanupUnbound(f) ==
    Raise([f EXCEPT !.exc = NoExc],
          Exc("UnboundLocalError", "finally", "%s", None,
              "local variable 'fetcher' referenced before assignment"))

\* Mutant: only the cached fetcher is reset.
_validate_location_keeps_store(val, devok, cause) ==
    LET f == [Frame0 EXCEPT !._cached_fetcher = NoObject]
    IN  IF _is_url(val)
        THEN [Log(f, "debug", "DistroInstaller location is a network source.")
                EXCEPT !.val = val]
        ELSE IF devok
        THEN [f EXCEPT !.calls = Append(@, "DeviceDisk.validate"),
                       !.val = val]
        ELSE LET g == Log([f EXCEPT !.calls = Append(@, "DeviceDisk.validate")],
                          "debug", "Error validating install location")
                 h == IF startswith(val, NFS)
                      THEN Log(g, "warning", NFS_NOTICE)
                      ELSE g
             IN  Raise(h, Exc("ValueError", "DeviceDisk.validate",
                              "Validating install media '%s' failed: %s",
                              val, cause))

\* Mutant: no warning is logged for an nfs: location.
_validate_location_no_warning(val, devok, cause) ==
    LET f == [Frame0 EXCEPT !._cached_store = NoObject,
                            !._cached_fetcher = NoObject]
    IN  IF _is_url(val)
        THEN [Log(f, "debug", "DistroInstaller location is a network source.")
                EXCEPT !.val = val]
        ELSE IF devok
        THEN [f EXCEPT !.calls = Append(@, "DeviceDisk.validate"),
                       !.val = val]
        ELSE LET g == Log([f EXCEPT !.calls = Append(@, "DeviceDisk.validate")],
                          "debug", "Error validating install location")
                 h == g
             IN  Raise(h, Exc("ValueError", "DeviceDisk.validate",
                              "Validating install media '%s' failed: %s",
                              val, cause))

_validate_location(val, devok, cause) ==
    LET f == [Frame0 EXCEPT !._cached_store = NoObject,
                            !._cached_fetcher = NoObject]
    IN  IF _is_url(val)
        THEN [Log(f, "debug", "DistroInstaller location is a network source.")
                EXCEPT !.val = val]
        ELSE IF devok
        THEN [f EXCEPT !.calls = Append(@, "DeviceDisk.validate"),
                       !.val = val]
        ELSE LET g == Log([f EXCEPT !.calls = Append(@, "DeviceDisk.validate")],
                          "debug", "Error validating install location")
                 h == IF startswith(val, NFS)
                      THEN Log(g, "warning", NFS_NOTICE)
                      ELSE g
             IN  Raise(h, Exc("ValueError", "DeviceDisk.validate",
                              "Validating install media '%s' failed: %s",
                              val, cause))

_prepare(inp) ==
    LET mediatype == _get_media_type
        f == _get_fetcher(Frame0, inp)
        g == Call(f, "prepareLocation", inp)
        wrapped == IF g.exc.type = "ValueError"
                   THEN [Log(g, "debug", "Error preparing install location")
                           EXCEPT !.exc = Exc("ValueError", "prepareLocation",
                                              "Invalid install location: %s",
                                              None, g.exc.cause)]
                   ELSE g
        body == IF g.exc # NoExc THEN wrapped
                ELSE IF mediatype = MEDIA_CDROM_URL
                THEN _prepare_cdrom_url(g, inp)
                ELSE _prepare_kernel_url(g, inp)
    IN  IF mediatype = MEDIA_CDROM_IMPLIED
        THEN Frame0
        ELSE IF mediatype = MEDIA_CDROM_PATH
        THEN Frame0
        ELSE IF f.exc # NoExc
        THEN f
        ELSE cleanupLocation(body, inp)

check_location(inp) ==
    LET mediatype == _get_media_type
        f == _get_fetcher(Frame0, inp)
        g == Call(f, "prepareLocation", inp)
        h == _get_store(g, inp)
    IN  IF mediatype \notin {MEDIA_CDROM_URL, MEDIA_LOCATION_URL}
        THEN Frame0
        ELSE IF f.exc # NoExc
        THEN cleanupUnbound(f)
        ELSE IF g.exc # NoExc
        THEN cleanupLocation(g, inp)
        ELSE cleanupLocation(h, inp)

\* Mutant: the OS database lookup is made outside the try.
detect_distro_narrow_try(inp, osinfo) ==
    LET start == [Frame0 EXCEPT !.val = "None"]
        f == _get_fetcher(start, inp)
        g == Call(f, "prepareLocation", inp)
        h == _get_store(g, inp)
        i == Call(h, "get_osdict_info", inp)
        j == IF i.exc # NoExc THEN i ELSE [i EXCEPT !.val = osinfo]
        url == IF f.exc # NoExc THEN cleanupUnbound(f)
               ELSE IF g.exc # NoExc THEN cleanupLocation(g, inp)
               ELSE IF h.exc # NoExc THEN cleanupLocation(h, inp)
               ELSE cleanupLocation(j, inp)
        db == Call(start, "lookup_os_by_media", inp)
        try == IF location = None
               THEN Raise(start,
                          Exc(IF remote THEN "AttributeError" ELSE "TypeError",
                              "_is_url", "%s", None, "_is_url"))
               ELSE IF _is_url(location)
               THEN url
               ELSE IF remote
               THEN Log(start, "debug",
                        "Can't detect distro for media on remote connection.")
               ELSE IF db.exc # NoExc THEN db
               ELSE [db EXCEPT !.val = osinfo]
        caught == IF try.exc # NoExc /\ try.exc.step # "lookup_os_by_media"
                  THEN [Log(try, "debug", "Error attempting to detect distro.")
                          EXCEPT !.exc = NoExc]
                  ELSE try
    IN  Log(caught, "debug", "installer.detect_distro returned=%s")

\* The result of detect_distro: the frame, val the value returned.  osinfo
\* is what get_osdict_info or lookup_os_by_media returns when it returns.
detect_distro(inp, osinfo) ==
    LET start == [Frame0 EXCEPT !.val = "None"]
        f == _get_fetcher(start, inp)
        g == Call(f, "prepareLocation", inp)
        h == _get_store(g, inp)
        i == Call(h, "get_osdict_info", inp)
        j == IF i.exc # NoExc THEN i ELSE [i EXCEPT !.val = osinfo]
        url == IF f.exc # NoExc THEN cleanupUnbound(f)
               ELSE IF g.exc # NoExc THEN cleanupLocation(g, inp)
               ELSE IF h.exc # NoExc THEN cleanupLocation(h, inp)
               ELSE cleanupLocation(j, inp)
        db == Call(start, "lookup_os_by_media", inp)
        try == IF location = None
               THEN Raise(start,
                          Exc(IF remote THEN "AttributeError" ELSE "TypeError",
                              "_is_url", "%s", None, "_is_url"))
               ELSE IF _is_url(location)
               THEN url
               ELSE IF remote
               THEN Log(start, "debug",
                        "Can't detect distro for media on remote connection.")
               ELSE IF db.exc # NoExc THEN db
               ELSE [db EXCEPT !.val = osinfo]
        caught == IF try.exc # NoExc
                  THEN [Log(try, "debug", "Error attempting to detect distro.")
                          EXCEPT !.exc = NoExc]
                  ELSE try
    IN  Log(caught, "debug", "installer.detect_distro returned=%s")

---------------------------------------------------------------------------
(* debug-nodedev.py *)

Hostdevs == {"pci_0000_00_19_0", "usb_001_004"}

\* What NodeDevice.lookupNodedevFromString may do: return a device, raise
\* ValueError, or raise another exception.
LookupOutcomes == {"ok", "ValueError", "libvirtError"}

HostdevLists ==
    UNION { [1..n -> Hostdevs] : n \in 0..MaxHostdevs }

\* Mutant: the except clause is missing, a ValueError leaves the loop.
probe_item_uncaught(hostdev, outcome) ==
    IF outcome = "ok"
    THEN [line |-> <<[tag |-> "OK", hostdev |-> hostdev]>>, exc |-> NoExc]
    ELSE [line |-> << >>,
          exc |-> Exc(outcome, "lookupNodedevFromString", "%s", None,
                      outcome)]

\* One iteration of the for loop, on hostdev: the line it prints and the
\* exception that leaves it.
probe_item(hostdev, outcome) ==
    IF outcome = "ok"
    THEN [line |-> <<[tag |-> "OK", hostdev |-> hostdev]>>, exc |-> NoExc]
    ELSE IF outcome = "ValueError"
    THEN [line |-> <<[tag |-> "FAIL", hostdev |-> hostdev]>>, exc |-> NoExc]
    ELSE [line |-> << >>,
          exc |-> Exc(outcome, "lookupNodedevFromString", "%s", None,
                      outcome)]

---------------------------------------------------------------------------
(* Actions of the installer *)

\* A method that calls no collaborator returns r.
Observe(name, a, r) ==
    /\ op' = name
    /\ arg' = a
    /\ ret' = r
    /\ exc' = NoExc
    /\ raised' = NoExc
    /\ calls' = << >>
    /\ log' = << >>

\* A method that ran to frame f returns r, or raises f.exc.
Commit(name, a, f, r) ==
    /\ op' = name
    /\ arg' = a
    /\ ret' = IF f.exc = NoExc THEN r ELSE None
    /\ exc' = f.exc
    /\ raised' = f.raised
    /\ calls' = f.calls
    /\ log' = f.log
    /\ _cached_fetcher' = f._cached_fetcher
    /\ _cached_store' = f._cached_store

IsUrl ==
    \E url \in Locations :
        /\ Observe("_is_url", url, _is_url(url))
        /\ UNCHANGED <<installer, environment, probe>>

GetMediaType ==
    /\ Observe("_get_media_type", None, _get_media_type)
    /\ UNCHANGED <<installer, environment, probe>>

GetBootdev ==
    \E isinstall \in BOOLEAN :
        /\ Observe("_get_bootdev", isinstall, _get_bootdev(isinstall))
        /\ UNCHANGED <<installer, environment, probe>>

HasInstallPhase ==
    /\ Observe("has_install_phase", None, has_install_phase)
    /\ UNCHANGED <<installer, environment, probe>>

NeedsCdrom ==
    /\ Observe("needs_cdrom", None, needs_cdrom)
    /\ UNCHANGED <<installer, environment, probe>>

ScratchdirRequired ==
    /\ Observe("scratchdir_required", None, scratchdir_required)
    /\ UNCHANGED <<installer, environment, probe>>

Prepare ==
    \E inp \in Inputs :
        /\ Commit("_prepare", None, _prepare(inp), None)
        /\ UNCHANGED <<location, cdrom, livecd, environment, probe>>

CheckLocation ==
    \E inp \in Inputs :
        /\ Commit("check_location", None, check_location(inp), TRUE)
        /\ UNCHANGED <<location, cdrom, livecd, environment, probe>>

OsInfos == {"None", "fedora28"}

DetectDistro ==
    \E inp \in Inputs, osinfo \in OsInfos :
        LET f == detect_distro(inp, osinfo)
        IN  /\ Commit("detect_distro", None, f, f.val)
            /\ UNCHANGED <<location, cdrom, livecd, environment, probe>>

\* History: _validate_location has been called on the installer that
\* holds object o.
Revalidated(o) ==
    IF o = NoObject THEN o ELSE [o EXCEPT !.revalidated = TRUE]

\* self.location = val: the property setter of Installer assigns what
\* _validate_location returns, and nothing when it raises.
SetLocation ==
    \E val \in Locations, devok \in BOOLEAN, cause \in Causes :
        LET f == _validate_location(val, devok, cause)
        IN  /\ op' = "_validate_location"
            /\ arg' = [val |-> val, fetcher |-> _cached_fetcher,
                        store |-> _cached_store]
            /\ ret' = IF f.exc = NoExc THEN f.val ELSE None
            /\ exc' = f.exc
            /\ raised' = f.raised
            /\ calls' = f.calls
            /\ log' = f.log
            /\ _cached_fetcher' = Revalidated(f._cached_fetcher)
            /\ _cached_store' = Revalidated(f._cached_store)
            /\ location' = IF f.exc = NoExc THEN f.val ELSE location
            /\ UNCHANGED <<cdrom, livecd, environment, probe>>

\* self.cdrom = b
SetCdrom ==
    \E b \in BOOLEAN :
        /\ cdrom' = b
        /\ Observe("set_cdrom", b, None)
        /\ UNCHANGED <<location, livecd, _cached_fetcher, _cached_store,
                       environment, probe>>

\* self.livecd = b
SetLivecd ==
    \E b \in BOOLEAN :
        /\ livecd' = b
        /\ Observe("set_livecd", b, None)
        /\ UNCHANGED <<location, cdrom, _cached_fetcher, _cached_store,
                       environment, probe>>

\* Between two calls a path is created, removed or replaced on the local
\* filesystem.
FsChange ==
    /\ fs' \in Filesystems \ {fs}
    /\ Observe("none", None, None)
    /\ UNCHANGED <<installer, remote, probe>>

ProbeIdle ==
    /\ hostdevs = << >>
    /\ idx = 0
    /\ out = << >>
    /\ ppc = "idle"

\* DistroInstaller.__init__, on a connection and a filesystem.
Init ==
    /\ location = None
    /\ cdrom = FALSE
    /\ livecd = FALSE
    /\ _cached_fetcher = NoObject
    /\ _cached_store = NoObject
    /\ remote \in BOOLEAN
    /\ fs \in Filesystems
    /\ op = "__init__"
    /\ arg = None
    /\ ret = None
    /\ exc = NoExc
    /\ raised = NoExc
    /\ calls = << >>
    /\ log = << >>
    /\ ProbeIdle

\* The installer with the methods that fetch: preparation, location check
\* and OS detection, between assignments of location and cdrom.
Next ==
    \/ Prepare
    \/ CheckLocation
    \/ DetectDistro
    \/ SetLocation
    \/ SetCdrom
    \/ FsChange

Spec == Init /\ [][Next]_vars

\* The installer with the methods that only classify the media.
ClassifyNext ==
    \/ IsUrl
    \/ GetMediaType
    \/ GetBootdev
    \/ HasInstallPhase
    \/ NeedsCdrom
    \/ ScratchdirRequired
    \/ SetLocation
    \/ SetCdrom
    \/ SetLivecd
    \/ FsChange

ClassifySpec == Init /\ [][ClassifyNext]_vars

---------------------------------------------------------------------------
(* Actions of debugnodedev *)

\* conn = cli.getConnection(...); print("Probing devices now:")
ProbeStart ==
    /\ ppc = "start"
    /\ ppc' = "loop"
    /\ idx' = 1
    /\ out' = <<[tag |-> "HEADER", hostdev |-> ""]>>
    /\ UNCHANGED <<hostdevs, installer, environment, observation>>

ProbeItem ==
    /\ ppc = "loop"
    /\ idx <= Len(hostdevs)
    /\ \E outcome \in LookupOutcomes :
           LET r == probe_item(hostdevs[idx], outcome)
           IN  /\ out' = out \o r.line
               /\ exc' = r.exc
               /\ idx' = IF r.exc = NoExc THEN idx + 1 ELSE idx
               /\ ppc' = IF r.exc = NoExc THEN "loop" ELSE "aborted"
    /\ UNCHANGED <<hostdevs, installer, environment, op, arg, ret, raised,
                   calls, log>>

ProbeReturn ==
    /\ ppc = "loop"
    /\ idx > Len(hostdevs)
    /\ ppc' = "done"
    /\ UNCHANGED <<hostdevs, idx, out, installer, environment, observation>>

ProbeInit ==
    /\ location = None
    /\ cdrom = FALSE
    /\ livecd = FALSE
    /\ _cached_fetcher = NoObject
    /\ _cached_store = NoObject
    /\ remote = FALSE
    /\ fs = [p \in Paths |-> "absent"]
    /\ op = "__init__"
    /\ arg = None
    /\ ret = None
    /\ exc = NoExc
    /\ raised = NoExc
    /\ calls = << >>
    /\ log = << >>
    /\ hostdevs \in HostdevLists
    /\ idx = 0
    /\ out = << >>
    /\ ppc = "start"

ProbeNext ==
    \/ ProbeStart
    \/ ProbeItem
    \/ ProbeReturn

ProbeSpec == ProbeInit /\ [][ProbeNext]_vars

---------------------------------------------------------------------------
(* Properties *)

Range(s) == { s[i] : i \in 1..Len(s) }

HasUrlScheme(url) ==
    \/ startswith(url, HTTP)
    \/ startswith(url, HTTPS)
    \/ startswith(url, FTP)

\* C1: _get_media_type returns exactly one of the six media types, the
\* first that matches of: cdrom flag and no location -> cdrom-implied;
\* location set and the URL check true -> cdrom-URL with the cdrom flag,
\* location-URL without; cdrom flag -> cdrom-path; location an existing
\* local directory -> directory; otherwise -> cdrom-device.
C1_MediaTypeDecision ==
    op = "_get_media_type" =>
        LET present == location # None
            url == present /\ _is_url(location)
            dir == present /\ exists(location) /\ isdir(location)
        IN  /\ ret \in MediaTypes
            /\ (cdrom /\ ~present) => ret = MEDIA_CDROM_IMPLIED
            /\ (present /\ url /\ cdrom) => ret = MEDIA_CDROM_URL
            /\ (present /\ url /\ ~cdrom) => ret = MEDIA_LOCATION_URL
            /\ (present /\ ~url /\ cdrom) => ret = MEDIA_CDROM_PATH
            /\ (~cdrom /\ ~url /\ dir) => ret = MEDIA_LOCATION_DIR
            /\ (~cdrom /\ ~url /\ ~dir) => ret = MEDIA_LOCATION_CDROM

\* C1 witness: the classifier has returned directory for a location with the
\* cdrom flag unset (the path is a local directory and the URL check, made
\* on a remote connection, is false).
C1_Witness ==
    /\ op = "_get_media_type"
    /\ ret = MEDIA_LOCATION_DIR
    /\ location # None
    /\ ~cdrom

\* C2 as claimed: on a local connection _is_url returns true for every
\* location whose path does not exist.
C2_MissingPathIsUrl ==
    (op = "_is_url" /\ ~remote /\ ~exists(arg)) => ret = TRUE

\* C2 as amended: on a local connection _is_url returns true for a location
\* whose path does not exist exactly when the string starts with http://,
\* https:// or ftp://.
C2_MissingPathIsUrlIffScheme ==
    (op = "_is_url" /\ ~remote /\ ~exists(arg)) =>
        (ret = TRUE <=> HasUrlScheme(arg))

\* C2 witness: on a local connection _is_url has returned true for an
\* https:// location whose path does not exist.
C2_Witness ==
    /\ op = "_is_url"
    /\ ~remote
    /\ ~exists(arg)
    /\ startswith(arg, HTTPS)
    /\ ret = TRUE

\* C5: _get_bootdev returns "cdrom" whenever isinstall is true; with
\* isinstall false it returns "cdrom" exactly when cdrom and livecd are set
\* and the media type is cdrom-path, cdrom-implied, directory or
\* cdrom-device, and "hd" otherwise.
C5_Bootdev ==
    op = "_get_bootdev" =>
        LET localmedia == _get_media_type \in
                {MEDIA_CDROM_PATH, MEDIA_CDROM_IMPLIED, MEDIA_LOCATION_DIR,
                 MEDIA_LOCATION_CDROM}
        IN  /\ ret \in {"cdrom", "hd"}
            /\ arg = TRUE => ret = "cdrom"
            /\ arg = FALSE =>
                   (ret = "cdrom" <=> (cdrom /\ livecd /\ localmedia))
            /\ (arg = FALSE /\ ~livecd) => ret = "hd"
            /\ (arg = FALSE /\ _get_media_type = MEDIA_CDROM_URL) =>
                   ret = "hd"

\* C5 witness: _get_bootdev(isinstall=False) has returned "hd" with the
\* cdrom flag set, a local media type and livecd unset.
C5_Witness ==
    /\ op = "_get_bootdev"
    /\ arg = FALSE
    /\ cdrom
    /\ ~livecd
    /\ _get_media_type = MEDIA_CDROM_PATH
    /\ ret = "hd"

\* C6: needs_cdrom returns true exactly when the media type is cdrom-path,
\* cdrom-device or cdrom-URL (false for cdrom-implied, directory and
\* location-URL), and the call changes no installer state.
C6_NeedsCdrom ==
    /\ [](op = "needs_cdrom" =>
            /\ ret = TRUE <=> _get_media_type \in
                   {MEDIA_CDROM_PATH, MEDIA_LOCATION_CDROM, MEDIA_CDROM_URL}
            /\ ret = FALSE <=> _get_media_type \in
                   {MEDIA_CDROM_IMPLIED, MEDIA_LOCATION_DIR,
                    MEDIA_LOCATION_URL})
    /\ [][op' = "needs_cdrom" => UNCHANGED <<installer, environment>>]_vars

\* C6 witness: needs_cdrom has returned true for media type cdrom-URL.
C6_Witness ==
    /\ op = "needs_cdrom"
    /\ ret = TRUE
    /\ _get_media_type = MEDIA_CDROM_URL

FetchingMethods == {"_prepare", "check_location", "detect_distro"}

\* C3: every call to _validate_location, successful or failing, leaves the
\* cached fetcher and the cached store empty; a cached fetcher or store is
\* one built for the current location since the latest revalidation, and
\* the fetcher a fetching method uses is that one.
C3_CachesFollowLocation ==
    /\ op = "_validate_location" =>
           (_cached_fetcher = NoObject /\ _cached_store = NoObject)
    /\ \A o \in {_cached_fetcher, _cached_store} :
           o # NoObject => (o.uri = location /\ ~o.revalidated)
    /\ (op \in FetchingMethods /\ "prepareLocation" \in Range(calls)) =>
           (_cached_fetcher # NoObject /\ _cached_fetcher.uri = location)
    /\ (op \in FetchingMethods /\ "getDistroStore" \in Range(calls)
            /\ raised.step # "getDistroStore") =>
           (_cached_store # NoObject /\ _cached_store.uri = location)

\* C3 witness: a failing _validate_location call that found a cached
\* fetcher and a cached store has left both caches empty.
C3_Witness ==
    /\ op = "_validate_location"
    /\ exc # NoExc
    /\ arg.fetcher # NoObject
    /\ arg.store # NoObject
    /\ _cached_fetcher = NoObject
    /\ _cached_store = NoObject

\* The method took its fetch path: its first collaborator call is the
\* construction of the fetcher or, with a cached fetcher, prepareLocation.
FetchPath ==
    /\ op \in FetchingMethods
    /\ calls # << >>
    /\ calls[1] \in {"make_scratchdir", "prepareLocation"}

\* C4: in _prepare, check_location and detect_distro, whenever a fetcher
\* was obtained cleanupLocation is executed before the method returns, and
\* the error that reaches the caller is the one raised by the failing step
\* (fetcher creation, prepareLocation, store detection, acquisition,
\* upload), not one raised by the cleanup statement.  The cases in which
\* cleanupLocation itself raises are left out of the statement.
C4_ScopedRelease ==
    FetchPath =>
        /\ "prepareLocation" \in Range(calls) =>
               "cleanupLocation" \in Range(calls)
        /\ (op # "detect_distro" /\ raised # NoExc
                /\ exc.step # "cleanupLocation") =>
               exc.step = raised.step

\* The message of exception e states that NFS is unsupported.
MentionsNfsUnsupported(e) ==
    e.fmt = NFS_NOTICE \/ e.cause = NFS_NOTICE

\* _validate_location was given an nfs: location, did not take it for a URL
\* and its device validation failed.
NfsValidationFailed ==
    /\ op = "_validate_location"
    /\ startswith(arg.val, NFS)
    /\ "DeviceDisk.validate" \in Range(calls)
    /\ exc # NoExc

\* C7 as claimed: _validate_location of a location that starts with "nfs:",
\* is not a URL and fails device validation raises a ValueError whose
\* message mentions that NFS is unsupported.
C7_NfsInMessage ==
    NfsValidationFailed =>
        (exc.type = "ValueError" /\ MentionsNfsUnsupported(exc))

\* C7 as amended: it raises a ValueError whose message is "Validating
\* install media '<location>' failed: <cause>", which does not mention
\* that NFS is unsupported; that notice is logged as a warning before the
\* error is raised.
C7_NfsWarningLogged ==
    NfsValidationFailed =>
        /\ exc.type = "ValueError"
        /\ exc.fmt = "Validating install media '%s' failed: %s"
        /\ exc.value = arg.val
        /\ exc.cause \in Causes
        /\ ~MentionsNfsUnsupported(exc)
        /\ [level |-> "warning", msg |-> NFS_NOTICE] \in Range(log)

\* C7 witness: _validate_location("nfs:a") has failed device validation.
C7_Witness ==
    /\ NfsValidationFailed
    /\ exc.step = "DeviceDisk.validate"

\* C9 as claimed: detect_distro never raises; whenever anything failed
\* during detection it returns none; for a location that is not a URL on a
\* remote connection it returns none without consulting the OS database.
C9_FailureYieldsNone ==
    op = "detect_distro" =>
        /\ exc = NoExc
        /\ raised # NoExc => ret = "None"
        /\ (location # None /\ ~_is_url(location) /\ remote) =>
               (ret = "None" /\ "lookup_os_by_media" \notin Range(calls))

\* C9 as amended: detect_distro never raises; whenever a step other than
\* cleanupLocation failed it returns none (when only cleanupLocation fails
\* it returns what get_osdict_info returned); for a location that is not a
\* URL on a remote connection it returns none without consulting the OS
\* database.
C9_FailureBeforeCleanupYieldsNone ==
    op = "detect_distro" =>
        /\ exc = NoExc
        /\ ret \in OsInfos
        /\ (raised # NoExc /\ raised.step # "cleanupLocation") =>
               ret = "None"
        /\ (location # None /\ ~_is_url(location) /\ remote) =>
               (ret = "None" /\ "lookup_os_by_media" \notin Range(calls))

\* C9 witness: detect_distro has swallowed a failure of get_osdict_info and
\* returned none.
C9_Witness ==
    /\ op = "detect_distro"
    /\ raised.step = "get_osdict_info"
    /\ exc = NoExc
    /\ ret = "None"

\* C10: scratchdir_required is true exactly when _prepare, on the same
\* fields, asks for a fetcher: both for cdrom-URL, location-URL, directory
\* and cdrom-device, neither for cdrom-implied and cdrom-path, for which
\* _prepare makes no collaborator call at all.  When the fetcher is
\* obtained, prepareLocation and cleanupLocation are both called.
C10_ScratchdirIffFetcher ==
    op = "_prepare" =>
        /\ scratchdir_required <=> FetchPath
        /\ FetchPath <=> _get_media_type \in
               {MEDIA_CDROM_URL, MEDIA_LOCATION_URL, MEDIA_LOCATION_DIR,
                MEDIA_LOCATION_CDROM}
        /\ _get_media_type \in {MEDIA_CDROM_IMPLIED, MEDIA_CDROM_PATH} =>
               (calls = << >> /\ exc = NoExc)
        /\ (FetchPath /\ raised.step \notin {"make_scratchdir", "fetcherForURI"}) =>
               /\ _cached_fetcher # NoObject
               /\ "prepareLocation" \in Range(calls)
               /\ "cleanupLocation" \in Range(calls)

\* C10 witness: _prepare has obtained a fetcher for media type cdrom-device
\* and called prepareLocation on it.
C10_Witness ==
    /\ op = "_prepare"
    /\ _get_media_type = MEDIA_LOCATION_CDROM
    /\ scratchdir_required
    /\ "prepareLocation" \in Range(calls)

\* C8: debugnodedev probes the hostdevice strings in list order and prints
\* one OK or FAIL line per item probed; a ValueError of a lookup yields a
\* FAIL line and the loop goes on, so a run in which no other exception is
\* raised ends with as many lines as items; any other exception leaves
\* the function at once, with that item and the remaining ones without a
\* line.
C8_ProbeEveryItem ==
    /\ ppc \in {"loop", "done", "aborted"} =>
           /\ out[1].tag = "HEADER"
           /\ Len(out) = idx
           /\ \A i \in 2..Len(out) :
                  /\ out[i].tag \in {"OK", "FAIL"}
                  /\ out[i].hostdev = hostdevs[i - 1]
    /\ ppc \in {"loop", "done"} => exc = NoExc
    /\ ppc = "done" => Len(out) = Len(hostdevs) + 1
    /\ ppc = "aborted" =>
           /\ exc.type \notin {"none", "ValueError"}
           /\ idx <= Len(hostdevs)
           /\ ~ENABLED ProbeNext

\* C8 witness: a run over three hostdevice strings whose second lookup
\* raised ValueError has ended with the lines OK, FAIL, OK.
C8_Witness ==
    /\ ppc = "done"
    /\ Len(hostdevs) = 3
    /\ out[2].tag = "OK"
    /\ out[3].tag = "FAIL"
    /\ out[4].tag = "OK"

=============================================================================
